---- MODULE Spec2Model ----
(***************************************************************************)
(* WinFuse: the transact loop (src/winfuse/fuse.c) and the protocol        *)
(* encoders (src/winfuse/proto.c).                                         *)
(*                                                                         *)
(* Threads run FuseDeviceTransact concurrently.  A call is cut into steps  *)
(* at the points where it touches state shared with other threads (the     *)
(* IOQ, the instance, the context allocator, the host framework).  The     *)
(* IOQ, the context object and the cache's forget list live in other      *)
(* files (ioq.c, context.c, cache.c) and are modelled from their           *)
(* contracts.                                                              *)
(***************************************************************************)
EXTENDS Integers, Sequences, FiniteSets, TLC

(* ------------------------------------------------------------------ *)
(* Bounds of the model                                                 *)
(* ------------------------------------------------------------------ *)
NThreads == 2          \* daemon worker threads inside FuseDeviceTransact
MaxCtx == 2            \* context addresses the allocator can hand out
MaxReq == 1            \* internal requests the host framework issues
MaxForget == 3         \* longest forget list handed to FuseProtoPostForget
MaxForgetPosts == 1    \* calls of FuseProtoPostForget
MaxExtraLen == 1       \* buffer lengths reach this far past each boundary

Threads == 1..NThreads
Addrs == 1..MaxCtx
ReqIds == 1..MaxReq

(* ------------------------------------------------------------------ *)
(* Wire-format sizes and opcodes (FUSE protocol header, proto.h)       *)
(* ------------------------------------------------------------------ *)
FUSE_PROTO_RSP_HEADER_SIZE == 16   \* len, error, unique
FUSE_PROTO_REQ_HEADER_SIZE == 40   \* len, opcode, unique, nodeid, uid, gid, pid
FUSE_PROTO_FORGET_ONE_SIZE == 16   \* nodeid, nlookup
\* Header plus a whole number of forget entries after the batch_forget
\* payload; the model keeps room for two entries.
FUSE_PROTO_REQ_SIZEMIN == 80
FUSE_PROTO_VERSION == 7
FUSE_PROTO_OPCODE_LOOKUP == 1
FUSE_PROTO_OPCODE_FORGET == 2
FUSE_PROTO_OPCODE_OPEN == 14
FUSE_PROTO_OPCODE_INIT == 26
FUSE_PROTO_OPCODE_BATCH_FORGET == 42

\* FUSE_PROTO_REQ_SIZE(name): header plus the fixed payload of the opcode
FUSE_PROTO_REQ_SIZE(name) ==
    FUSE_PROTO_REQ_HEADER_SIZE +
        CASE name = "init" -> 16
          [] name = "lookup" -> 0
          [] name = "forget" -> 8
          [] name = "batch_forget" -> 8
          [] name = "open" -> 8

\* (UINT32)-1, the access-denied sentinel of Instance->VersionMajor; the
\* 32-bit pattern 0xFFFFFFFF is written as the signed integer it also is
VersionMajorDenied == -1

ENOENT == 2

\* FuseNtStatusFromErrno: pure map from a FUSE error to a native status
FuseNtStatusFromErrno(error) ==
    CASE error = 0 -> "STATUS_SUCCESS"
      [] error = ENOENT -> "STATUS_OBJECT_NAME_NOT_FOUND"
      [] OTHER -> "STATUS_UNSUCCESSFUL"

NT_SUCCESS(Status) == Status = "STATUS_SUCCESS"

(* ------------------------------------------------------------------ *)
(* State                                                               *)
(* ------------------------------------------------------------------ *)
VARIABLES
    Instance,     \* FUSE_INSTANCE: resources, version, init event
    ctx,          \* context memory: address -> FUSE_CONTEXT or free
    pending,      \* IOQ pending list: sequence of context addresses (FIFO)
    processing,   \* IOQ processing map: the uniques (addresses) awaiting a response
    host,         \* host framework: requests issued, responses received, frees
    th,           \* per thread: position in FuseDeviceTransact and its locals
    entry,        \* set by the step that enters a call: its IRP and the check's verdict
    ret,          \* set by the step that returns from a call: what it returned
    hist          \* INIT completed successfully; FuseProtoPostForget calls so far;
                  \* forget items released by Fini hooks

vars == <<Instance, ctx, pending, processing, host, th, entry, ret, hist>>

(* ------------------------------------------------------------------ *)
(* Values                                                              *)
(* ------------------------------------------------------------------ *)
\* Host request kinds, named after the operation the context runs
Kinds == {"Lookup", "Open", "Create"}
ReservedKind == "Reserved"          \* FspFsctlTransactReservedKind

CoroDone == -1                      \* coroutine state after coro_break

\* FUSE_PROTO_ATTR and FSP_FSCTL_FILE_INFO, zeroed
NoAttr == [ino |-> 0, size |-> 0, mode |-> 0, atime |-> 0, atimensec |-> 0,
           mtime |-> 0, mtimensec |-> 0, ctime |-> 0, ctimensec |-> 0]
NoTime == [unix |-> 0, ticks |-> 0]
NoFileInfo ==
    [FileAttributes |-> 0, ReparseTag |-> "0", FileSize |-> 0, AllocationSize |-> 0,
     LastAccessTime |-> NoTime, LastWriteTime |-> NoTime, ChangeTime |-> NoTime,
     CreationTime |-> NoTime, IndexNumber |-> 0, HardLinks |-> 0, EaSize |-> 0]
\* The sector parameters of FSP_FSCTL_VOLUME_PARAMS
NoVolumeParams == [SectorSize |-> 0, SectorsPerAllocationUnit |-> 0]

NoRsp == [error |-> 0, major |-> 0, minor |-> 0, attr |-> NoAttr]
ZeroReq == [len |-> 0, opcode |-> 0, unique |-> 0, nodeid |-> 0, count |-> 0]

NullContext == [tag |-> "null", addr |-> 0, status |-> "STATUS_SUCCESS"]
PtrContext(a) == [tag |-> "ptr", addr |-> a, status |-> "STATUS_SUCCESS"]
\* FuseContextStatus: a tagged pointer that carries a status and no memory
StatusContext(s) == [tag |-> "status", addr |-> 0, status |-> s]
FuseContextIsStatus(Context) == Context.tag = "status"
FuseContextToStatus(Context) == Context.status

FreeCtx == [live |-> FALSE, InternalRequest |-> 0, Kind |-> "none", Hint |-> 0,
            Status |-> "STATUS_SUCCESS", FileInfo |-> NoFileInfo,
            CoroState |-> 0, ForgetList |-> <<>>,
            Fini |-> "none", N |-> 0, nForget |-> 0, nBatch |-> 0]

NoRequest == [state |-> "none", Kind |-> "none", Hint |-> 0, freed |-> 0,
              freeStatus |-> "none"]

\* The host framework names a request by its Hint
HintOf(r) == 1000 + r

IdleThread == [pc |-> "idle", Context |-> NullContext, InternalRequest |-> 0,
               FuseResponse |-> NoRsp, OutputBufferLength |-> 0,
               Information |-> 0, rspCase |-> "none", fromPending |-> FALSE]

\* Which context's request a daemon response answers: the context named by
\* its internal request and Hint; NoOrigin when that is not followed
NoOrigin == <<0, 0>>
OriginOf(c) == <<c.InternalRequest, c.Hint>>

NoEntry == [InputBufferLength |-> 0, len |-> 0, unique |-> 0, re |-> NoOrigin,
            OutputBufferLength |-> 0, verdict |-> "none"]
NoForgot == [N |-> 0, nForget |-> 0, nBatch |-> 0, left |-> 0]
NoRet == [Result |-> "none", Information |-> 0, FuseRequest |-> ZeroReq,
          rspCase |-> "none", fromPending |-> FALSE, out |-> FALSE,
          forgot |-> NoForgot]

FreeAddrs == {a \in Addrs : ~ctx[a].live}
InPending(a) == \E i \in 1..Len(pending) : pending[i] = a

(* ------------------------------------------------------------------ *)
(* Protocol encoders (proto.c)                                         *)
(* ------------------------------------------------------------------ *)
LookupNameLength == 3               \* Context->Lookup.Name.Length
BatchForgetMinor == 16              \* protocol minor that introduced BATCH_FORGET

\* The request header every encoder stamps; unique is the context's address
FuseProtoInitRequest(a, len, opcode, nodeid) ==
    [len |-> len, opcode |-> opcode, unique |-> a, nodeid |-> nodeid, count |-> 0]

\* Variant: the response's error is not looked at
StatusAfterResponse_Ignored(c, rsp) == c.Status

\* The errno check every Send routine makes after its coro_yield
StatusAfterResponse(c, rsp) ==
    IF rsp.error # 0 THEN FuseNtStatusFromErrno(rsp.error) ELSE c.Status

\* A Send routine: the first call fills the request and yields, the second
\* reads the response and breaks.  s0 is the coroutine state at entry.
SendRoutine(a, c, rsp, req, s0, len, opcode, nodeid) ==
    IF c.CoroState = s0
    THEN [c |-> [c EXCEPT !.CoroState = s0 + 1],
          req |-> FuseProtoInitRequest(a, len, opcode, nodeid),
          active |-> TRUE]
    ELSE [c |-> [c EXCEPT !.Status = StatusAfterResponse(c, rsp),
                          !.CoroState = CoroDone],
          req |-> req,
          active |-> FALSE]

FuseProtoSendInit(a, c, rsp, req) ==
    SendRoutine(a, c, rsp, req, 0,
        FUSE_PROTO_REQ_SIZE("init"), FUSE_PROTO_OPCODE_INIT, 0)

FuseProtoSendLookup(a, c, rsp, req, s0) ==
    SendRoutine(a, c, rsp, req, s0,
        FUSE_PROTO_REQ_SIZE("lookup") + LookupNameLength + 1,
        FUSE_PROTO_OPCODE_LOOKUP, 1)

FuseProtoSendOpen(a, c, rsp, req, s0) ==
    SendRoutine(a, c, rsp, req, s0,
        FUSE_PROTO_REQ_SIZE("open"), FUSE_PROTO_OPCODE_OPEN, 1)

\* The stub: coro_break at once, no request written
FuseProtoSendCreate(a, c, rsp, req) ==
    [c |-> [c EXCEPT !.CoroState = CoroDone], req |-> req, active |-> FALSE]

\* FuseCacheForgetNextItem: pops the head item; Ok is FALSE on an empty list
FuseCacheForgetNextItem(list) ==
    IF list = <<>> THEN [Ok |-> FALSE, Ino |-> 0, list |-> list]
    ELSE [Ok |-> TRUE, Ino |-> Head(list), list |-> Tail(list)]

\* Ino0 is what the local Ino holds when no item was popped (uninitialised)
FuseProtoFillForget(a, c, Ino0) ==
    LET n == FuseCacheForgetNextItem(c.ForgetList)
        Ino == IF n.Ok THEN n.Ino ELSE Ino0
    IN  [c |-> [c EXCEPT !.ForgetList = n.list],
         req |-> FuseProtoInitRequest(a, FUSE_PROTO_REQ_SIZE("forget"),
                     FUSE_PROTO_OPCODE_FORGET, Ino)]

\* The loop of FuseProtoFillBatchForget: P and EndP are byte offsets in the
\* request buffer; returns the final P and the list that is left
RECURSIVE BatchForgetLoop(_, _, _)
BatchForgetLoop(P, EndP, list) ==
    IF EndP > P /\ FuseCacheForgetNextItem(list).Ok
    THEN BatchForgetLoop(P + FUSE_PROTO_FORGET_ONE_SIZE, EndP,
             FuseCacheForgetNextItem(list).list)
    ELSE [P |-> P, list |-> list]

\* Variant: the buffer is taken to hold one entry only
FuseProtoFillBatchForget_OneEntry(a, c) ==
    LET StartP == FUSE_PROTO_REQ_SIZE("batch_forget")
        EndP == StartP + FUSE_PROTO_FORGET_ONE_SIZE
        l == BatchForgetLoop(StartP, EndP, c.ForgetList)
    IN  [c |-> [c EXCEPT !.ForgetList = l.list],
         req |-> [FuseProtoInitRequest(a, l.P, FUSE_PROTO_OPCODE_BATCH_FORGET, 0)
                      EXCEPT !.count = (l.P - StartP) \div FUSE_PROTO_FORGET_ONE_SIZE]]

FuseProtoFillBatchForget(a, c) ==
    LET StartP == FUSE_PROTO_REQ_SIZE("batch_forget")
        EndP == StartP + (FUSE_PROTO_REQ_SIZEMIN - FUSE_PROTO_REQ_SIZE("batch_forget"))
        l == BatchForgetLoop(StartP, EndP, c.ForgetList)
    IN  [c |-> [c EXCEPT !.ForgetList = l.list],
         req |-> [FuseProtoInitRequest(a, l.P, FUSE_PROTO_OPCODE_BATCH_FORGET, 0)
                      EXCEPT !.count = (l.P - StartP) \div FUSE_PROTO_FORGET_ONE_SIZE]]

\* File types in st_mode; octal 0170000 masks the type
S_IFIFO == 4096
S_IFCHR == 8192
S_IFDIR == 16384
S_IFBLK == 24576
S_IFLNK == 40960
S_IFSOCK == 49152
FILE_ATTRIBUTE_DIRECTORY == 16
FILE_ATTRIBUTE_REPARSE_POINT == 1024

\* mode & 0170000, for modes below 2^16
ModeType(mode) == (mode \div 4096) * 4096

\* FuseUnixTimeToFileTime: seconds and nanoseconds to 100 ns ticks; the
\* seconds are kept apart, the sub-second part is converted
FuseUnixTimeToFileTime(unix, nsec) == [unix |-> unix, ticks |-> nsec \div 100]

\* FuseAttrToFileInfo.  Sizes stay far below 2^64, where the rounding sum
\* would wrap.
FuseAttrToFileInfo(VolumeParams, Attr) ==
    LET AllocationUnit ==
            VolumeParams.SectorSize * VolumeParams.SectorsPerAllocationUnit
        t == ModeType(Attr.mode)
        ChangeTime == FuseUnixTimeToFileTime(Attr.ctime, Attr.ctimensec)
    IN  [FileAttributes |->
             CASE t = S_IFDIR -> FILE_ATTRIBUTE_DIRECTORY
               [] t \in {S_IFIFO, S_IFCHR, S_IFBLK, S_IFSOCK, S_IFLNK} ->
                      FILE_ATTRIBUTE_REPARSE_POINT
               [] OTHER -> 0,
         ReparseTag |->
             CASE t \in {S_IFIFO, S_IFCHR, S_IFBLK, S_IFSOCK} -> "IO_REPARSE_TAG_NFS"
               [] t = S_IFLNK -> "IO_REPARSE_TAG_SYMLINK"
               [] OTHER -> "0",
         FileSize |-> Attr.size,
         AllocationSize |->
             ((Attr.size + AllocationUnit - 1) \div AllocationUnit) * AllocationUnit,
         LastAccessTime |-> FuseUnixTimeToFileTime(Attr.atime, Attr.atimensec),
         LastWriteTime |-> FuseUnixTimeToFileTime(Attr.mtime, Attr.mtimensec),
         ChangeTime |-> ChangeTime,
         CreationTime |-> ChangeTime,
         IndexNumber |-> Attr.ino,
         HardLinks |-> 0,
         EaSize |-> 0]

(* ------------------------------------------------------------------ *)
(* Operations run by FuseContextProcess (context object, modelled from *)
(* its contract)                                                       *)
(* ------------------------------------------------------------------ *)
\* INIT: send, then record the version and signal the init event
FuseOpReserved_Init(a, c, rsp, req, inst) ==
    LET s == FuseProtoSendInit(a, c, rsp, req)
    IN  IF s.active
        THEN [c |-> s.c, req |-> s.req, Continue |-> TRUE, inst |-> inst]
        ELSE [c |-> s.c, req |-> s.req, Continue |-> FALSE,
              inst |-> [inst EXCEPT
                  !.VersionMajor = IF rsp.error = 0 THEN rsp.major
                                   ELSE VersionMajorDenied,
                  !.VersionMinor = IF rsp.error = 0 THEN rsp.minor ELSE @,
                  !.InitEvent = TRUE]]

\* FORGET: one message per request half-step, never waits for a response
FuseOpReserved_Forget(a, c, req, inst, Ino0) ==
    IF inst.VersionMinor >= BatchForgetMinor
    THEN LET f == FuseProtoFillBatchForget(a, c)
         IN  [c |-> [f.c EXCEPT !.nBatch = @ + 1], req |-> f.req,
              Continue |-> FALSE, inst |-> inst]
    ELSE LET f == FuseProtoFillForget(a, c, Ino0)
         IN  [c |-> [f.c EXCEPT !.nForget = @ + 1], req |-> f.req,
              Continue |-> FALSE, inst |-> inst]

\* Cache Insert(parent, name, attrs): the cache holds one item more
FuseCacheInsert(inst) == [inst EXCEPT !.CacheItems = @ + 1]

\* Variant: the file info is built from the attributes the context started
\* with, not from the response
FuseOpLookup_NoAttr(a, c, rsp, req, inst) ==
    LET s == FuseProtoSendLookup(a, c, rsp, req, 0)
    IN  IF s.active \/ s.c.Status # "STATUS_SUCCESS"
        THEN [c |-> s.c, req |-> s.req, active |-> s.active, inst |-> inst]
        ELSE [c |-> [s.c EXCEPT !.FileInfo =
                        FuseAttrToFileInfo(inst.VolumeParams, NoAttr)],
              req |-> s.req, active |-> s.active,
              inst |-> FuseCacheInsert(inst)]

\* The lookup operation: LOOKUP, then on success the response's attributes
\* become the internal response's file info and the name enters the cache
FuseOpLookup(a, c, rsp, req, inst) ==
    LET s == FuseProtoSendLookup(a, c, rsp, req, 0)
    IN  IF s.active \/ s.c.Status # "STATUS_SUCCESS"
        THEN [c |-> s.c, req |-> s.req, active |-> s.active, inst |-> inst]
        ELSE [c |-> [s.c EXCEPT !.FileInfo =
                        FuseAttrToFileInfo(inst.VolumeParams, rsp.attr)],
              req |-> s.req, active |-> s.active,
              inst |-> FuseCacheInsert(inst)]

\* A two-exchange operation: LOOKUP, then OPEN.  After a good LOOKUP
\* response it needs a request buffer and stays active without one.
FuseOpOpen(a, c, rsp, req) ==
    IF c.CoroState \in {0, 1}
    THEN LET s == FuseProtoSendLookup(a, c, rsp, req, 0)
         IN  IF s.active \/ s.c.Status # "STATUS_SUCCESS"
             THEN s
             ELSE [c |-> [s.c EXCEPT !.CoroState = 2], req |-> req, active |-> TRUE]
    ELSE FuseProtoSendOpen(a, c, rsp, req, 2)

\* FuseContextProcess: resume the context's operation with a response
\* (response half) or with the request buffer (request half)
FuseContextProcess(a, c, rsp, req, inst, Ino0) ==
    IF c.InternalRequest = 0
    THEN CASE c.Hint = FUSE_PROTO_OPCODE_INIT ->
                  FuseOpReserved_Init(a, c, rsp, req, inst)
           [] c.Hint = FUSE_PROTO_OPCODE_FORGET ->
                  FuseOpReserved_Forget(a, c, req, inst, Ino0)
           [] OTHER -> [c |-> c, req |-> req, Continue |-> FALSE, inst |-> inst]
    ELSE LET s == CASE c.Kind = "Lookup" -> FuseOpLookup(a, c, rsp, req, inst)
                    [] c.Kind = "Open" -> FuseOpOpen(a, c, rsp, req)
                    [] OTHER -> FuseProtoSendCreate(a, c, rsp, req)
         IN  [c |-> s.c, req |-> s.req, Continue |-> s.active,
              inst |-> IF c.Kind = "Lookup" THEN s.inst ELSE inst]

\* FuseContextCreate on success: a zeroed context bound to the request, its
\* internal response carrying the request's Kind and Hint
FuseContextCreate(r, InternalRequest) ==
    [FreeCtx EXCEPT !.live = TRUE, !.InternalRequest = r,
                    !.Kind = IF r = 0 THEN ReservedKind ELSE InternalRequest.Kind,
                    !.Hint = IF r = 0 THEN 0 ELSE InternalRequest.Hint]

(* ------------------------------------------------------------------ *)
(* Host framework and inputs                                           *)
(* ------------------------------------------------------------------ *)
TransportError == "STATUS_UNSUCCESSFUL"    \* FspFsextProviderTransact failing
AllocError == "STATUS_INSUFFICIENT_RESOURCES"

\* FspFsextProviderTransact(response, 0): the response reaches the host iff ok
HostForward(h, rsp, ok) ==
    IF ok THEN [h EXCEPT !.upward = @ \cup {rsp}] ELSE h

\* FuseFreeExternal(r), in a call whose status is `status` when it is known
FuseFreeExternal(h, r, status) ==
    [h EXCEPT !.req[r].state = "freed",
              !.req[r].freed = @ + 1,
              !.req[r].freeStatus = status]

\* The internal response of a live context
InternalResponse(c) ==
    [Kind |-> c.Kind, Hint |-> c.Hint, Status |-> c.Status, FileInfo |-> c.FileInfo]

\* FuseContextDelete: the Fini hook drops the forget list, the internal
\* request is released, the memory returns to the allocator
HostAfterDelete(h, c, status) ==
    IF c.InternalRequest # 0 THEN FuseFreeExternal(h, c.InternalRequest, status) ELSE h

InputLengths ==
    {0} \cup ((FUSE_PROTO_RSP_HEADER_SIZE - MaxExtraLen) ..
              (FUSE_PROTO_RSP_HEADER_SIZE + MaxExtraLen))
ResponseLens ==
    (FUSE_PROTO_RSP_HEADER_SIZE - MaxExtraLen) ..
    (FUSE_PROTO_RSP_HEADER_SIZE + MaxExtraLen + 1)
OutputLengths ==
    {0} \cup ((FUSE_PROTO_REQ_SIZEMIN - MaxExtraLen) ..
              (FUSE_PROTO_REQ_SIZEMIN + MaxExtraLen))
\* Irp->IoStatus.Information as the caller left it
InformationIn == {0, 1}
Errors == {0, ENOENT}
InitMinors == {BatchForgetMinor - 1, BatchForgetMinor}

\* Attributes a daemon can answer a LOOKUP with: a regular file, a
\* directory, a symlink, a FIFO and a socket, of sizes around the allocation
\* units in use
AttrModes == {32768 + 420, S_IFDIR + 493, S_IFLNK + 511, S_IFIFO + 420, S_IFSOCK + 420}
AttrSizes == {0, 511, 512, 513, 4097}
AttrsOf(modes, sizes) ==
    [ino : {2}, size : sizes, mode : modes, atime : {1}, atimensec : {150},
     mtime : {2}, mtimensec : {250}, ctime : {3}, ctimensec : {399}]
Attrs == AttrsOf(AttrModes, AttrSizes)
PlainAttrs == AttrsOf({S_IFDIR + 493}, {513})
VolumeParamsIn ==
    [SectorSize : {512}, SectorsPerAllocationUnit : {1, 8}]
PlainVolumeParams ==
    [SectorSize : {512}, SectorsPerAllocationUnit : {1}]

\* The responses a daemon can put in the input buffer
Responses ==
    [len : ResponseLens, error : Errors, unique : Addrs,
     major : {FUSE_PROTO_VERSION}, minor : InitMinors, attr : PlainAttrs,
     re : {NoOrigin}]
NoInput == [len |-> 0, error |-> 0, unique |-> 0, major |-> 0, minor |-> 0,
            attr |-> NoAttr, re |-> NoOrigin]

\* The calls.  A call that fails the parameter check reads nothing of the
\* response but its len, so those calls are drawn with one payload only.
LengthsPass(i, l, o) ==
    /\ i # 0 => FUSE_PROTO_RSP_HEADER_SIZE <= l /\ l <= i
    /\ o # 0 => FUSE_PROTO_REQ_SIZEMIN <= o
ResponsesFor(i, o) ==
    {x \in Responses : LengthsPass(i, x.len, o) \/
        (x.error = 0 /\ x.unique = 1 /\ x.minor = BatchForgetMinor)}
IrpsWith(i, o) ==
    {[InputBufferLength |-> i, FuseResponse |-> r, OutputBufferLength |-> o,
      Information |-> n] : r \in ResponsesFor(i, o), n \in InformationIn}
Irps ==
    UNION {IrpsWith(io[1], io[2]) : io \in (InputLengths \ {0}) \X OutputLengths}
    \cup
    {[InputBufferLength |-> 0, FuseResponse |-> NoInput, OutputBufferLength |-> o,
      Information |-> n] : o \in OutputLengths, n \in InformationIn}

\* Calls with buffers of the exact sizes whose responses carry every
\* attribute of Attrs
AttrIrps ==
    {[InputBufferLength |-> FUSE_PROTO_RSP_HEADER_SIZE,
      FuseResponse |-> [len |-> FUSE_PROTO_RSP_HEADER_SIZE, error |-> e, unique |-> u,
                        major |-> FUSE_PROTO_VERSION, minor |-> BatchForgetMinor,
                        attr |-> at, re |-> NoOrigin],
      OutputBufferLength |-> o, Information |-> 0] :
        e \in Errors, u \in Addrs, at \in Attrs, o \in {0, FUSE_PROTO_REQ_SIZEMIN}}
    \cup
    {[InputBufferLength |-> 0, FuseResponse |-> NoInput,
      OutputBufferLength |-> FUSE_PROTO_REQ_SIZEMIN, Information |-> 0]}

\* The contexts whose requests expect a response: INIT and the contexts of
\* the host's requests
Origins ==
    {<<0, FUSE_PROTO_OPCODE_INIT>>} \cup {<<r, HintOf(r)>> : r \in ReqIds}

\* Calls with buffers of the exact sizes whose responses answer requests that
\* were sent, the latest one or an earlier one (late and duplicate responses)
ReuseIrps ==
    {[InputBufferLength |-> FUSE_PROTO_RSP_HEADER_SIZE,
      FuseResponse |-> [len |-> FUSE_PROTO_RSP_HEADER_SIZE, error |-> e, unique |-> u,
                        major |-> FUSE_PROTO_VERSION, minor |-> BatchForgetMinor,
                        attr |-> at, re |-> o],
      OutputBufferLength |-> out, Information |-> 0] :
        e \in Errors, u \in Addrs, at \in PlainAttrs, o \in Origins,
        out \in {0, FUSE_PROTO_REQ_SIZEMIN}}
    \cup
    {[InputBufferLength |-> 0, FuseResponse |-> NoInput,
      OutputBufferLength |-> FUSE_PROTO_REQ_SIZEMIN, Information |-> 0]}

\* The calls that pass the parameter check with buffers of the exact sizes
ExactIrps ==
    {irp \in Irps :
        /\ irp.InputBufferLength \in {0, FUSE_PROTO_RSP_HEADER_SIZE}
        /\ irp.FuseResponse.len = irp.InputBufferLength
        /\ irp.OutputBufferLength \in {0, FUSE_PROTO_REQ_SIZEMIN}
        /\ irp.Information = 0}

(* ------------------------------------------------------------------ *)
(* FuseDeviceInit, FuseProtoPostInit, FuseProtoPostForget              *)
(* ------------------------------------------------------------------ *)
NoInstance ==
    [state |-> "none", Result |-> "none", Ioq |-> "null", Cache |-> "null",
     OpGuardLock |-> "uninit", Files |-> "uninit", InitEvent |-> FALSE,
     VolumeParams |-> NoVolumeParams, CacheItems |-> 0, fini |-> <<>>,
     VersionMajor |-> 0, VersionMinor |-> 0]

Init ==
    /\ Instance = NoInstance
    /\ ctx = [a \in Addrs |-> FreeCtx]
    /\ pending = <<>>
    /\ processing = {}
    /\ host = [req |-> [r \in ReqIds |-> NoRequest], upward |-> {}]
    /\ th = [t \in Threads |-> IdleThread]
    /\ entry = NoEntry
    /\ ret = NoRet
    /\ hist = [initOk |-> FALSE, posts |-> 0, released |-> 0, sent |-> {}]

\* FuseProtoPostInit: the context is created, marked INIT and posted
FuseProtoPostInit(a) ==
    /\ ctx' = [ctx EXCEPT ![a] = [FuseContextCreate(0, NoRequest) EXCEPT
                                      !.Hint = FUSE_PROTO_OPCODE_INIT]]
    /\ pending' = Append(pending, a)

\* FuseDeviceInit; failAt names the step that fails ("none": success)
FuseDeviceInit(failAt, VolumeParams) ==
    /\ Instance.state = "none"
    /\ CASE failAt \in {"FuseIoqCreate", "FuseCacheCreate"} ->
              \* nothing was stored in the instance; the local Ioq is deleted
              /\ Instance' = [Instance EXCEPT !.state = "failed", !.Result = AllocError]
              /\ UNCHANGED <<ctx, pending>>
         [] failAt = "FuseProtoPostInit" ->
              \* the context came back status-only; Cache and Ioq are deleted
              /\ Instance' = [Instance EXCEPT !.state = "failed", !.Result = AllocError,
                                  !.OpGuardLock = "init", !.Files = "init",
                                  !.VolumeParams = VolumeParams,
                                  !.Ioq = "deleted", !.Cache = "deleted"]
              /\ UNCHANGED <<ctx, pending>>
         [] OTHER ->
              /\ Instance' = [Instance EXCEPT !.state = "up", !.Result = "STATUS_SUCCESS",
                                  !.OpGuardLock = "init", !.Files = "init",
                                  !.VolumeParams = VolumeParams,
                                  !.Ioq = "live", !.Cache = "live"]
              /\ \E a \in FreeAddrs : FuseProtoPostInit(a)
    /\ entry' = NoEntry /\ ret' = NoRet
    /\ UNCHANGED <<processing, host, th, hist>>

\* Variant: the cache is deleted first
FiniOrder_CacheFirst ==
    <<"FuseCacheDelete", "FuseIoqDelete", "FuseFileInstanceFini", "FuseRwlockFinalize">>

\* The order in which FuseDeviceFini finalizes
FiniOrder ==
    <<"FuseIoqDelete", "FuseFileInstanceFini", "FuseCacheDelete", "FuseRwlockFinalize">>

\* The contexts the IOQ holds
InIoq == {a \in Addrs : InPending(a) \/ a \in processing}

\* The Fini hook of a context: FuseProtoPostForget_ContextFini hands the
\* forget list to FuseCacheDeleteItems; the number of items released
ContextFini(c) ==
    IF c.Fini = "FuseProtoPostForget_ContextFini" THEN Len(c.ForgetList) ELSE 0

RECURSIVE FiniAll(_)
FiniAll(S) ==
    IF S = {} THEN 0
    ELSE LET a == CHOOSE x \in S : TRUE
         IN  ContextFini(ctx[a]) + FiniAll(S \ {a})

RECURSIVE FreeAll(_, _)
FreeAll(h, S) ==
    IF S = {} THEN h
    ELSE LET a == CHOOSE x \in S : TRUE
         IN  FreeAll(HostAfterDelete(h, ctx[a], "FuseDeviceFini"), S \ {a})

\* FuseIoqDelete: every context still in pending or processing is deleted
\* (its Fini hook runs, its internal request is released)
FuseIoqDelete ==
    /\ ctx' = [a \in Addrs |-> IF a \in InIoq THEN FreeCtx ELSE ctx[a]]
    /\ pending' = <<>>
    /\ processing' = {}
    /\ host' = FreeAll(host, InIoq)
    /\ hist' = [hist EXCEPT !.released = @ + FiniAll(InIoq)]

\* FuseDeviceFini, one finalization per step, in the order of FiniOrder.
\* The host framework calls it when no FuseDeviceTransact call is in flight.
FuseDeviceFini ==
    /\ Instance.state \in {"up", "fini"}
    /\ \A t \in Threads : th[t].pc = "idle"
    /\ Len(Instance.fini) < Len(FiniOrder)
    /\ LET what == FiniOrder[Len(Instance.fini) + 1]
           inst == [Instance EXCEPT !.state = "fini", !.fini = Append(@, what)]
       IN  CASE what = "FuseIoqDelete" ->
                  /\ FuseIoqDelete
                  /\ Instance' = [inst EXCEPT !.Ioq = "deleted"]
             [] what = "FuseFileInstanceFini" ->
                  /\ Instance' = [inst EXCEPT !.Files = "final"]
                  /\ UNCHANGED <<ctx, pending, processing, host, hist>>
             [] what = "FuseCacheDelete" ->
                  /\ Instance' = [inst EXCEPT !.Cache = "deleted", !.CacheItems = 0]
                  /\ UNCHANGED <<ctx, pending, processing, host, hist>>
             [] OTHER ->
                  /\ Instance' = [inst EXCEPT !.OpGuardLock = "final"]
                  /\ UNCHANGED <<ctx, pending, processing, host, hist>>
    /\ entry' = NoEntry /\ ret' = NoRet
    /\ UNCHANGED th

\* FuseProtoPostForget with a list of n items; ok: FuseContextCreate succeeded
FuseProtoPostForget(n, ok) ==
    /\ Instance.state = "up"
    /\ hist.posts < MaxForgetPosts
    /\ hist' = [hist EXCEPT !.posts = @ + 1]
    /\ IF ok /\ FreeAddrs # {}
       THEN \E a \in FreeAddrs :
              /\ ctx' = [ctx EXCEPT ![a] = [FuseContextCreate(0, NoRequest) EXCEPT
                             !.Fini = "FuseProtoPostForget_ContextFini",
                             !.Hint = FUSE_PROTO_OPCODE_FORGET,
                             !.ForgetList = [i \in 1..n |-> i + 1],
                             !.N = n]]
              /\ pending' = Append(pending, a)
       ELSE UNCHANGED <<ctx, pending>>
    /\ entry' = NoEntry /\ ret' = NoRet
    /\ UNCHANGED <<Instance, processing, host, th>>

(* ------------------------------------------------------------------ *)
(* FuseDeviceTransact (fuse.c)                                         *)
(* ------------------------------------------------------------------ *)
\* Variant: a response that fills the input buffer exactly is rejected
CheckParameters_LenFillsBuffer(InputBufferLength, len, OutputBufferLength) ==
    IF 0 # InputBufferLength /\
       (\/ FUSE_PROTO_RSP_HEADER_SIZE > InputBufferLength
        \/ FUSE_PROTO_RSP_HEADER_SIZE > len
        \/ len >= InputBufferLength)
    THEN "STATUS_INVALID_PARAMETER"
    ELSE IF 0 # OutputBufferLength /\ FUSE_PROTO_REQ_SIZEMIN > OutputBufferLength
    THEN "STATUS_BUFFER_TOO_SMALL"
    ELSE "ok"

\* Variant: an output buffer of exactly the minimum size is rejected
CheckParameters_MinRejected(InputBufferLength, len, OutputBufferLength) ==
    IF 0 # InputBufferLength /\
       (\/ FUSE_PROTO_RSP_HEADER_SIZE > InputBufferLength
        \/ FUSE_PROTO_RSP_HEADER_SIZE > len
        \/ len > InputBufferLength)
    THEN "STATUS_INVALID_PARAMETER"
    ELSE IF 0 # OutputBufferLength /\ FUSE_PROTO_REQ_SIZEMIN >= OutputBufferLength
    THEN "STATUS_BUFFER_TOO_SMALL"
    ELSE "ok"

\* "check parameters": the status returned at once, or "ok"
CheckParameters(InputBufferLength, len, OutputBufferLength) ==
    IF 0 # InputBufferLength /\
       (\/ FUSE_PROTO_RSP_HEADER_SIZE > InputBufferLength
        \/ FUSE_PROTO_RSP_HEADER_SIZE > len
        \/ len > InputBufferLength)
    THEN "STATUS_INVALID_PARAMETER"
    ELSE IF 0 # OutputBufferLength /\ FUSE_PROTO_REQ_SIZEMIN > OutputBufferLength
    THEN "STATUS_BUFFER_TOO_SMALL"
    ELSE "ok"

\* Variant: the response is looked up before the output buffer is checked
ResponseTaken_BeforeOutputCheck(v, InputBufferLength) ==
    v \in {"ok", "STATUS_BUFFER_TOO_SMALL"} /\ 0 # InputBufferLength

\* FuseIoqEndProcessing is called for a response only past both checks
ResponseTaken(v, InputBufferLength) ==
    v = "ok" /\ 0 # InputBufferLength

\* Variant: an unmatched response ends the call
AfterEndProcessing_StopsCall(found) == IF found THEN "rsp" ELSE "idle"

\* After FuseIoqEndProcessing: resume the context found, or go to request:
AfterEndProcessing(found) == IF found THEN "rsp" ELSE "req"

\* Variant: a finished self-generated context is posted again
ResponseDispatch_Reposts(Continue, c) ==
    IF Continue \/ 0 = c.InternalRequest THEN "FuseIoqPostPending"
    ELSE "Forward"

\* Response half, after FuseContextProcess
ResponseDispatch(Continue, c) ==
    IF Continue THEN "FuseIoqPostPending"
    ELSE IF 0 = c.InternalRequest THEN "FuseContextDelete"
    ELSE "Forward"

\* Variant: a failed forward does not end the call
AfterForward_GoesOn(ok) == "req"

\* Response half, after the forward and FuseContextDelete:
\* if (!NT_SUCCESS(Result)) goto exit
AfterForward(ok) == IF ok THEN "req" ELSE "idle"

\* Variant: the test is inverted
MustWaitInit_Inverted(VersionMajor) == 0 # VersionMajor

\* if (0 == VersionMajor): wait for the init event
MustWaitInit(VersionMajor) == 0 = VersionMajor

\* Variant: a forget context with items left is not posted again
RequestDispatch_NoRepost(Continue, Context, c) ==
    IF Continue THEN "FuseIoqStartProcessing"
    ELSE IF FuseContextIsStatus(Context) THEN "StatusResponse"
    ELSE IF 0 = c.InternalRequest
    THEN IF c.Hint \in {FUSE_PROTO_OPCODE_FORGET, FUSE_PROTO_OPCODE_BATCH_FORGET}
         THEN IF c.ForgetList # <<>> THEN "Nothing"
              ELSE "FuseContextDelete"
         ELSE "Nothing"
    ELSE "Forward"

\* Variant: a finished host context is neither forwarded nor deleted
RequestDispatch_NoDelete(Continue, Context, c) ==
    IF Continue THEN "FuseIoqStartProcessing"
    ELSE IF FuseContextIsStatus(Context) THEN "StatusResponse"
    ELSE IF 0 = c.InternalRequest
    THEN IF c.Hint \in {FUSE_PROTO_OPCODE_FORGET, FUSE_PROTO_OPCODE_BATCH_FORGET}
         THEN IF c.ForgetList # <<>> THEN "FuseIoqPostPending"
              ELSE "FuseContextDelete"
         ELSE "Nothing"
    ELSE "Nothing"

\* Variant: the local reference is kept when a live context was created
LocalAfterCreate_Kept(Context, InternalRequest) == InternalRequest

\* if (!FuseContextIsStatus(Context)) InternalRequest = 0: the call's local
\* reference to the internal request once the context exists
LocalAfterCreate(Context, InternalRequest) ==
    IF ~FuseContextIsStatus(Context) THEN 0 ELSE InternalRequest

\* Variant: a forget context is posted again whether or not items remain
RequestDispatch_RepostsEmpty(Continue, Context, c) ==
    IF Continue THEN "FuseIoqStartProcessing"
    ELSE IF FuseContextIsStatus(Context) THEN "StatusResponse"
    ELSE IF 0 = c.InternalRequest
    THEN IF c.Hint \in {FUSE_PROTO_OPCODE_FORGET, FUSE_PROTO_OPCODE_BATCH_FORGET}
         THEN "FuseIoqPostPending"
         ELSE "Nothing"
    ELSE "Forward"

\* Request half, after FuseContextProcess (or after a status-only create)
RequestDispatch(Continue, Context, c) ==
    IF Continue THEN "FuseIoqStartProcessing"
    ELSE IF FuseContextIsStatus(Context) THEN "StatusResponse"
    ELSE IF 0 = c.InternalRequest
    THEN IF c.Hint \in {FUSE_PROTO_OPCODE_FORGET, FUSE_PROTO_OPCODE_BATCH_FORGET}
         THEN IF c.ForgetList # <<>> THEN "FuseIoqPostPending"
              ELSE "FuseContextDelete"
         ELSE "Nothing"
    ELSE "Forward"

\* Variant: IoStatus.Status is left zeroed
StatusOnlyResponse_NoStatus(InternalRequest, Context) ==
    [Kind |-> InternalRequest.Kind, Hint |-> InternalRequest.Hint,
     Status |-> "STATUS_SUCCESS", FileInfo |-> NoFileInfo]

\* Variant: the Hint is left zeroed
StatusOnlyResponse_NoHint(InternalRequest, Context) ==
    [Kind |-> InternalRequest.Kind, Hint |-> 0,
     Status |-> FuseContextToStatus(Context), FileInfo |-> NoFileInfo]

\* The internal response built for a status-only context
StatusOnlyResponse(InternalRequest, Context) ==
    [Kind |-> InternalRequest.Kind, Hint |-> InternalRequest.Hint,
     Status |-> FuseContextToStatus(Context), FileInfo |-> NoFileInfo]

\* Variant: the context is found but stays in the processing map
FuseIoqEndProcessing_Keeps(map, unique) == map

\* FuseIoqEndProcessing: the context with this unique, if any, leaves the
\* processing map
FuseIoqEndProcessing(map, unique) == map \ {unique}

\* exit: the local internal request, if still held, is freed; the call returns
TransactReturn(t, h, Result, Information, FuseRequest, obs) ==
    /\ host' = IF th[t].InternalRequest # 0
               THEN FuseFreeExternal(h, th[t].InternalRequest, Result)
               ELSE h
    /\ ret' = IF obs
              THEN [Result |-> Result, Information |-> Information,
                    FuseRequest |-> FuseRequest, rspCase |-> th[t].rspCase,
                    fromPending |-> th[t].fromPending,
                    out |-> th[t].OutputBufferLength # 0, forgot |-> NoForgot]
              ELSE NoRet
    /\ th' = [th EXCEPT ![t] = IdleThread]

\* Entry: parameter check, then FuseIoqEndProcessing when a response came
TransactEnter(t, irp, obs) ==
    /\ Instance.state = "up"
    /\ th[t].pc = "idle"
    \* a response said to answer a request answers one that was sent
    /\ irp.FuseResponse.re # NoOrigin =>
           <<irp.FuseResponse.unique, irp.FuseResponse.re>> \in hist.sent
    /\ LET v == CheckParameters(irp.InputBufferLength, irp.FuseResponse.len,
                    irp.OutputBufferLength)
           u == irp.FuseResponse.unique
           found == u \in processing
           rsp == [error |-> irp.FuseResponse.error, major |-> irp.FuseResponse.major,
                   attr |-> irp.FuseResponse.attr,
                   minor |-> irp.FuseResponse.minor]
       IN  /\ entry' = IF obs
                       THEN [InputBufferLength |-> irp.InputBufferLength,
                             len |-> irp.FuseResponse.len,
                             unique |-> u,
                             re |-> irp.FuseResponse.re,
                             OutputBufferLength |-> irp.OutputBufferLength,
                             verdict |-> v]
                       ELSE NoEntry
           /\ IF v # "ok"
              THEN /\ ret' = IF obs
                             THEN [NoRet EXCEPT !.Result = v,
                                      !.Information = irp.Information,
                                      !.out = irp.OutputBufferLength # 0]
                             ELSE NoRet
                   /\ processing' = IF ResponseTaken(v, irp.InputBufferLength)
                                    THEN FuseIoqEndProcessing(processing, u)
                                    ELSE processing
                   /\ UNCHANGED th
              ELSE IF ResponseTaken(v, irp.InputBufferLength)
              THEN /\ processing' = FuseIoqEndProcessing(processing, u)
                   /\ th' = [th EXCEPT ![t] =
                         [IdleThread EXCEPT
                             !.pc = AfterEndProcessing(found),
                             !.Context = IF found THEN PtrContext(u) ELSE NullContext,
                             !.FuseResponse = IF found THEN rsp ELSE NoRsp,
                             !.rspCase = IF ~obs THEN "none"
                                         ELSE IF found THEN "matched"
                                         ELSE "spurious",
                             !.OutputBufferLength = irp.OutputBufferLength,
                             !.Information = irp.Information]]
                   /\ ret' = NoRet
              ELSE /\ th' = [th EXCEPT ![t] =
                         [IdleThread EXCEPT
                             !.pc = "req",
                             !.OutputBufferLength = irp.OutputBufferLength,
                             !.Information = irp.Information]]
                   /\ ret' = NoRet
                   /\ UNCHANGED processing
    /\ UNCHANGED <<Instance, ctx, pending, host, hist>>

\* Response half: resume the context with the response, then dispatch
TransactResponse(t, fwdOk, obs) ==
    /\ th[t].pc = "rsp"
    /\ LET a == th[t].Context.addr
           p == FuseContextProcess(a, ctx[a], th[t].FuseResponse, ZeroReq,
                    Instance, 0)
           what == ResponseDispatch(p.Continue, p.c)
           Result == IF fwdOk THEN "STATUS_SUCCESS" ELSE TransportError
       IN  /\ Instance' = p.inst
           /\ hist' = [hist EXCEPT !.initOk =
                  @ \/ (ctx[a].InternalRequest = 0 /\
                        ctx[a].Hint = FUSE_PROTO_OPCODE_INIT /\
                        th[t].FuseResponse.error = 0)]
           /\ CASE what = "FuseIoqPostPending" ->
                     /\ ctx' = [ctx EXCEPT ![a] = p.c]
                     /\ pending' = Append(pending, a)
                     /\ th' = [th EXCEPT ![t].pc = "req", ![t].Context = NullContext,
                                         ![t].FuseResponse = NoRsp]
                     /\ ret' = NoRet
                     /\ UNCHANGED host
                [] what = "FuseContextDelete" ->
                     /\ ctx' = [ctx EXCEPT ![a] = FreeCtx]
                     /\ th' = [th EXCEPT ![t].pc = "req", ![t].Context = NullContext,
                                         ![t].FuseResponse = NoRsp]
                     /\ ret' = NoRet
                     /\ UNCHANGED <<pending, host>>
                [] OTHER ->
                     /\ ctx' = [ctx EXCEPT ![a] = FreeCtx]
                     /\ UNCHANGED pending
                     /\ LET h1 == HostForward(host, InternalResponse(p.c), fwdOk)
                            h2 == HostAfterDelete(h1, p.c,
                                      IF fwdOk THEN "in call" ELSE Result)
                        IN  IF AfterForward(fwdOk) = "req"
                            THEN /\ host' = h2
                                 /\ th' = [th EXCEPT ![t].pc = "req",
                                               ![t].Context = NullContext,
                                               ![t].FuseResponse = NoRsp]
                                 /\ ret' = NoRet
                            ELSE TransactReturn(t, h2, Result, th[t].Information,
                                     ZeroReq, obs)
    /\ entry' = NoEntry
    /\ UNCHANGED processing

\* Variant: the sentinel is not looked at
AfterInitCheck_NoSentinel(t, VersionMajor, obs) ==
    /\ th' = [th EXCEPT ![t].pc = "pull", ![t].Information = 0]
    /\ ret' = NoRet
    /\ UNCHANGED host

\* After the init wait (or when none was needed): the sentinel check, then on
\* to asking the host framework for an internal request
AfterInitCheck(t, VersionMajor, obs) ==
    IF VersionMajorDenied = VersionMajor
    THEN TransactReturn(t, host, "STATUS_ACCESS_DENIED", 0, ZeroReq, obs)
    ELSE /\ th' = [th EXCEPT ![t].pc = "pull", ![t].Information = 0]
         /\ ret' = NoRet
                     /\ UNCHANGED host

\* request: Information is cleared; with an output buffer the header is
\* zeroed, FuseIoqNextPending is asked, and on an empty list VersionMajor is read
TransactRequest(t, obs) ==
    /\ th[t].pc = "req"
    /\ IF 0 = th[t].OutputBufferLength
       THEN /\ TransactReturn(t, host, "STATUS_SUCCESS", 0, ZeroReq, obs)
            /\ UNCHANGED pending
       ELSE IF pending # <<>>
       THEN /\ pending' = Tail(pending)
            /\ th' = [th EXCEPT ![t].pc = "proc", ![t].Information = 0,
                                ![t].Context = PtrContext(Head(pending)),
                                ![t].fromPending = obs]
            /\ ret' = NoRet
                     /\ UNCHANGED host
       ELSE /\ UNCHANGED pending
            /\ IF MustWaitInit(Instance.VersionMajor)
               THEN /\ th' = [th EXCEPT ![t].pc = "wait", ![t].Information = 0]
                    /\ ret' = NoRet
                     /\ UNCHANGED host
               ELSE AfterInitCheck(t, Instance.VersionMajor, obs)
    /\ entry' = NoEntry
    /\ UNCHANGED <<Instance, ctx, processing, hist>>

\* What FsRtlCancellableWaitForSingleObject can return
WaitResults ==
    {"STATUS_SUCCESS", "STATUS_TIMEOUT", "STATUS_THREAD_IS_TERMINATING",
     "STATUS_CANCELLED"}

\* The wait on the init event returns w; success needs the event signaled
TransactWait(t, w, obs) ==
    /\ th[t].pc = "wait"
    /\ w = "STATUS_SUCCESS" => Instance.InitEvent
    /\ LET Result == IF w \in {"STATUS_TIMEOUT", "STATUS_THREAD_IS_TERMINATING"}
                     THEN "STATUS_CANCELLED" ELSE w
       IN  IF ~NT_SUCCESS(Result)
           THEN TransactReturn(t, host, Result, 0, ZeroReq, obs)
           ELSE AfterInitCheck(t, Instance.VersionMajor, obs)
    /\ entry' = NoEntry
    /\ UNCHANGED <<Instance, ctx, pending, processing, hist>>

\* FspFsextProviderTransact(0, &InternalRequest), then FuseContextCreate.
\* got: "error", "null" or a request kind; allocOk: the allocation succeeds
TransactPull(t, got, allocOk, obs) ==
    /\ th[t].pc = "pull"
    /\ CASE got = "error" ->
              /\ TransactReturn(t, host, TransportError, 0, ZeroReq, obs)
              /\ UNCHANGED ctx
         [] got = "null" ->
              /\ TransactReturn(t, host, "STATUS_SUCCESS", 0, ZeroReq, obs)
              /\ UNCHANGED ctx
         [] OTHER ->
              /\ \E r \in ReqIds :
                   /\ host.req[r].state = "none"
                   /\ \A q \in ReqIds : q < r => host.req[q].state # "none"
                   /\ host' = [host EXCEPT !.req[r] =
                          [NoRequest EXCEPT !.state = "admitted", !.Kind = got,
                                            !.Hint = HintOf(r)]]
                   /\ IF allocOk /\ FreeAddrs # {}
                      THEN \E a \in FreeAddrs :
                             /\ ctx' = [ctx EXCEPT ![a] =
                                    FuseContextCreate(r, host'.req[r])]
                             /\ th' = [th EXCEPT ![t].pc = "proc",
                                           ![t].InternalRequest = r,
                                           ![t].Context = PtrContext(a)]
                      ELSE /\ UNCHANGED ctx
                           /\ th' = [th EXCEPT ![t].pc = "proc",
                                         ![t].InternalRequest = r,
                                         ![t].Context = StatusContext(AllocError)]
              /\ ret' = NoRet
    /\ entry' = NoEntry
    /\ UNCHANGED <<Instance, pending, processing, hist>>

\* Request half: resume the context with the request buffer (unless it is
\* status-only), dispatch on the outcome, set Information, exit
TransactProcess(t, fwdOk, Ino0, obs, origins) ==
    /\ th[t].pc = "proc"
    /\ LET Context == th[t].Context
           a == Context.addr
           r == th[t].InternalRequest
           p == IF FuseContextIsStatus(Context)
                THEN [c |-> FreeCtx, req |-> ZeroReq, Continue |-> FALSE,
                      inst |-> Instance]
                ELSE FuseContextProcess(a, ctx[a], NoRsp, ZeroReq, Instance, Ino0)
           \* InternalRequest = 0 once a live context owns the request
           me == [th EXCEPT ![t].InternalRequest = LocalAfterCreate(Context, r)]
           what == RequestDispatch(p.Continue, Context, p.c)
           Result == IF fwdOk THEN "STATUS_SUCCESS" ELSE TransportError
           Return(h, res, info, fg) ==
               /\ host' = IF me[t].InternalRequest # 0
                          THEN FuseFreeExternal(h, me[t].InternalRequest, res)
                          ELSE h
               /\ ret' = IF obs
                         THEN [Result |-> res, Information |-> info,
                               FuseRequest |-> p.req, rspCase |-> th[t].rspCase,
                               fromPending |-> th[t].fromPending, out |-> TRUE,
                               forgot |-> fg]
                         ELSE NoRet
               /\ th' = [th EXCEPT ![t] = IdleThread]
       IN  /\ Instance' = p.inst
           /\ CASE what = "FuseIoqStartProcessing" ->
                     /\ ctx' = [ctx EXCEPT ![a] = p.c]
                     /\ processing' = processing \cup {a}
                     /\ Return(host, "STATUS_SUCCESS", p.req.len, NoForgot)
                     /\ UNCHANGED pending
                [] what = "StatusResponse" ->
                     /\ Return(HostForward(host,
                                   StatusOnlyResponse(host.req[r], Context), fwdOk),
                               Result, IF fwdOk THEN p.req.len ELSE 0, NoForgot)
                     /\ UNCHANGED <<ctx, pending, processing>>
                [] what = "FuseIoqPostPending" ->
                     /\ ctx' = [ctx EXCEPT ![a] = p.c]
                     /\ pending' = Append(pending, a)
                     /\ Return(host, "STATUS_SUCCESS", p.req.len, NoForgot)
                     /\ UNCHANGED processing
                [] what = "FuseContextDelete" ->
                     /\ ctx' = [ctx EXCEPT ![a] = FreeCtx]
                     /\ Return(host, "STATUS_SUCCESS", p.req.len,
                            [N |-> p.c.N, nForget |-> p.c.nForget,
                             nBatch |-> p.c.nBatch, left |-> Len(p.c.ForgetList)])
                     /\ UNCHANGED <<pending, processing>>
                [] what = "Nothing" ->
                     /\ ctx' = [ctx EXCEPT ![a] = p.c]
                     /\ Return(host, "STATUS_SUCCESS", p.req.len, NoForgot)
                     /\ UNCHANGED <<pending, processing>>
                [] OTHER ->
                     /\ ctx' = [ctx EXCEPT ![a] = FreeCtx]
                     /\ Return(HostAfterDelete(
                                   HostForward(host, InternalResponse(p.c), fwdOk),
                                   p.c, Result),
                               Result, IF fwdOk THEN p.req.len ELSE 0, NoForgot)
                     /\ UNCHANGED <<pending, processing>>
           \* the requests sent to the daemon that await a response
           /\ hist' = IF origins /\ what = "FuseIoqStartProcessing"
                      THEN [hist EXCEPT !.sent = @ \cup {<<p.req.unique, OriginOf(p.c)>>}]
                      ELSE hist
    /\ entry' = NoEntry

(* ------------------------------------------------------------------ *)
(* Specifications                                                      *)
(* ------------------------------------------------------------------ *)
\* The steps of the engine; ts: the threads that run, irps: the calls they
\* make, obs: whether entries and returns are recorded in entry and ret
\* origins: whether the requests sent to the daemon are recorded in hist.sent
Step(ts, irps, vps, obs, origins) ==
    \/ \E f \in {"none", "FuseIoqCreate", "FuseCacheCreate", "FuseProtoPostInit"},
          vp \in vps :
           FuseDeviceInit(f, vp)
    \/ FuseDeviceFini
    \/ \E n \in 1..MaxForget, ok \in BOOLEAN : FuseProtoPostForget(n, ok)
    \/ \E t \in ts, irp \in irps : TransactEnter(t, irp, obs)
    \/ \E t \in ts, fwdOk \in BOOLEAN : TransactResponse(t, fwdOk, obs)
    \/ \E t \in ts : TransactRequest(t, obs)
    \/ \E t \in ts, w \in WaitResults : TransactWait(t, w, obs)
    \/ \E t \in ts, got \in Kinds \cup {"error", "null"}, allocOk \in BOOLEAN :
           TransactPull(t, got, allocOk, obs)
    \/ \E t \in ts, fwdOk \in BOOLEAN : TransactProcess(t, fwdOk, 0, obs, origins)

\* Concurrent calls with buffers of the exact sizes
Next == Step(Threads, ExactIrps, PlainVolumeParams, FALSE, FALSE)
Spec == Init /\ [][Next]_vars

\* One call at a time, every buffer length, entries and returns recorded
NextSeq == Step({1}, Irps, PlainVolumeParams, TRUE, FALSE)
SpecSeq == Init /\ [][NextSeq]_vars

\* One call at a time, buffers of the exact sizes, every attribute and every
\* volume geometry
NextAttr == Step({1}, AttrIrps, VolumeParamsIn, FALSE, FALSE)
SpecAttr == Init /\ [][NextAttr]_vars

\* One call at a time, every response an answer to a request that was sent
NextReuse == Step({1}, ReuseIrps, PlainVolumeParams, TRUE, TRUE)
SpecReuse == Init /\ [][NextReuse]_vars


(* ------------------------------------------------------------------ *)
(* Properties                                                          *)
(* ------------------------------------------------------------------ *)
\* Thread t holds context a: it took a from the IOQ (or created it) and has
\* not yet posted, started or destroyed it
Holds(t, a) == th[t].pc \in {"rsp", "proc"} /\ th[t].Context = PtrContext(a)
TimesPending(a) == Cardinality({i \in 1..Len(pending) : pending[i] = a})
TimesProcessing(a) == IF a \in processing THEN 1 ELSE 0
TimesHeld(a) == Cardinality({t \in Threads : Holds(t, a)})
Placed(a) == InPending(a) \/ a \in processing
IsInit(c) == c.live /\ c.InternalRequest = 0 /\ c.Hint = FUSE_PROTO_OPCODE_INIT
IsForget(c) == c.live /\ c.InternalRequest = 0 /\ c.Hint = FUSE_PROTO_OPCODE_FORGET

\* C1 as stated: every context is in exactly one of pending, processing or
\* destroyed, in every reachable state.  Fails while a call holds a context.
C1_AsStated ==
    \A a \in Addrs :
        /\ ctx[a].live => TimesPending(a) + TimesProcessing(a) = 1
        /\ ~ctx[a].live => TimesPending(a) + TimesProcessing(a) = 0

\* C1 (amended): in every reachable state every live context is in exactly
\* one of: the pending list (once), the processing map, or the hands of
\* exactly one call of FuseDeviceTransact; a destroyed context is in none.
\* In particular no context is in pending and in processing at once.
C1_ExactlyOnePlace ==
    \A a \in Addrs :
        /\ ctx[a].live =>
               TimesPending(a) + TimesProcessing(a) + TimesHeld(a) = 1
        /\ ~ctx[a].live =>
               TimesPending(a) + TimesProcessing(a) + TimesHeld(a) = 0

\* Two calls in flight, each holding its own context
C1_Witness ==
    \E a \in Addrs, b \in Addrs :
        a # b /\ Holds(1, a) /\ Holds(2, b)

\* C2: whenever a call of FuseDeviceTransact lets go of a context (in the
\* response half, or on return), the context has been posted to pending,
\* inserted into processing, or destroyed.
C2_NoLeak ==
    [][\A t \in Threads, a \in Addrs :
          (Holds(t, a) /\ ~Holds(t, a)') => (Placed(a)' \/ ~ctx'[a].live)]_vars

\* A call returned having destroyed a context and the memory is free again,
\* while another context waits in processing
C2_Witness ==
    /\ \A t \in Threads : th[t].pc = "idle"
    /\ host.req[1].state = "freed"
    /\ \E a \in Addrs : IsForget(ctx[a]) /\ InPending(a)
    /\ Cardinality(FreeAddrs) = MaxCtx - 1

\* An internal response with the Kind and Hint of request r reached the host
Delivered(r) ==
    \E d \in host.upward :
        d.Kind = host.req[r].Kind /\ d.Hint = host.req[r].Hint

C4_InitCompletion ==
    [][\A t \in Threads, a \in Addrs :
          (/\ Holds(t, a) /\ th[t].pc = "rsp"
           /\ IsInit(ctx[a])
           /\ th[t].FuseResponse.error = 0
           /\ th'[t] # th[t])
          => (/\ Instance'.InitEvent
              /\ Instance'.VersionMajor = th[t].FuseResponse.major
              /\ Instance'.VersionMajor # 0
              /\ a \notin processing'
              /\ ~InPending(a)'
              /\ ~ctx'[a].live)]_vars

\* INIT has completed: event signaled, version recorded, no INIT context left
C4_Witness ==
    /\ hist.initOk
    /\ Instance.InitEvent
    /\ Instance.VersionMajor = FUSE_PROTO_VERSION
    /\ processing = {}
    /\ \A a \in Addrs : ~IsInit(ctx[a])

\* C5: once a successful INIT response has been processed, no request
\* half-step starts waiting on the init event.
C5_NoWaitAfterInit ==
    [][hist.initOk =>
          \A t \in Threads : th'[t].pc = "wait" => th[t].pc = "wait"]_vars

\* After INIT a request half-step found the pending list empty and went on
\* to ask the host framework
C5_Witness ==
    /\ hist.initOk
    /\ pending = <<>>
    /\ \E t \in Threads : th[t].pc = "pull"


\* C6 as stated: a response whose unique is not in processing changes
\* nothing in the IOQ, the request half-step runs, and the call returns
\* success.  Fails when the request half-step finds pending empty and fails.
C6_AsStated ==
    [][/\ \A t \in Threads :
            (/\ th[t].pc = "idle" /\ th'[t] # th[t]
             /\ entry'.verdict = "ok" /\ entry'.InputBufferLength # 0
             /\ entry'.unique \notin processing)
            => (/\ pending' = pending /\ processing' = processing /\ ctx' = ctx
                /\ th'[t].pc = "req" /\ th'[t].Context = NullContext)
       /\ ret'.rspCase = "spurious" => ret'.Result = "STATUS_SUCCESS"]_vars

\* C6 (amended): a response whose unique is not in processing changes
\* nothing in the IOQ and resumes no context; the request half-step runs;
\* the call returns success when there is no output buffer or a pending
\* context was dequeued, and then a request was emitted in the latter case.
\* (With pending empty the call returns what the request half-step yields.)
C6_SpuriousResponse ==
    [][/\ \A t \in Threads :
            (/\ th[t].pc = "idle" /\ th'[t] # th[t]
             /\ entry'.verdict = "ok" /\ entry'.InputBufferLength # 0
             /\ entry'.unique \notin processing)
            => (/\ pending' = pending /\ processing' = processing /\ ctx' = ctx
                /\ th'[t].pc = "req" /\ th'[t].Context = NullContext)
       /\ (ret'.rspCase = "spurious" /\ (~ret'.out \/ ret'.fromPending))
            => ret'.Result = "STATUS_SUCCESS"
       /\ (ret'.rspCase = "spurious" /\ ret'.fromPending)
            => (/\ ret'.FuseRequest.len > 0
                /\ ret'.Information = ret'.FuseRequest.len)]_vars

\* A call with an unmatched response dequeued a pending context, emitted
\* its request and returned success
C6_Witness ==
    /\ ret.rspCase = "spurious"
    /\ ret.fromPending
    /\ ret.Result = "STATUS_SUCCESS"
    /\ ret.FuseRequest.len > 0

\* C7: a call with a non-empty input buffer gets past the response check iff
\* FUSE_PROTO_RSP_HEADER_SIZE <= len <= InputBufferLength; otherwise it
\* returns STATUS_INVALID_PARAMETER at once.
C7_ResponseLength ==
    (entry.verdict # "none" /\ entry.InputBufferLength # 0) =>
        LET fits == /\ FUSE_PROTO_RSP_HEADER_SIZE <= entry.len
                    /\ entry.len <= entry.InputBufferLength
        IN  /\ fits <=> entry.verdict # "STATUS_INVALID_PARAMETER"
            /\ ~fits => ret.Result = "STATUS_INVALID_PARAMETER"
            /\ (fits /\ entry.verdict = "ok") => ret.Result = "none"

\* A response that fills the input buffer exactly is accepted
C7_Witness ==
    /\ entry.verdict = "ok"
    /\ entry.InputBufferLength > FUSE_PROTO_RSP_HEADER_SIZE
    /\ entry.len = entry.InputBufferLength

\* C8: a call with a non-empty output buffer (and no bad response) returns
\* STATUS_BUFFER_TOO_SMALL iff OutputBufferLength < FUSE_PROTO_REQ_SIZEMIN.
C8_OutputLength ==
    (entry.verdict \notin {"none", "STATUS_INVALID_PARAMETER"}
     /\ entry.OutputBufferLength # 0) =>
        /\ entry.verdict = "STATUS_BUFFER_TOO_SMALL"
              <=> entry.OutputBufferLength < FUSE_PROTO_REQ_SIZEMIN
        /\ ret.Result = "STATUS_BUFFER_TOO_SMALL"
              <=> entry.OutputBufferLength < FUSE_PROTO_REQ_SIZEMIN

\* An output buffer of exactly the minimum size is accepted
C8_Witness ==
    /\ entry.verdict = "ok"
    /\ entry.OutputBufferLength = FUSE_PROTO_REQ_SIZEMIN

\* C9 as stated, for the returns taken after the parameter check: the
\* Information the call leaves is the emitted request's len, or 0 when no
\* request was emitted.  Fails when the response half-step's forward fails.
C9_InformationIsLen ==
    ret.Result \notin {"none", "STATUS_INVALID_PARAMETER",
                       "STATUS_BUFFER_TOO_SMALL"}
        => ret.Information = ret.FuseRequest.len

\* Items a BATCH_FORGET message holds in a buffer of the minimum size
BatchCapacity ==
    (FUSE_PROTO_REQ_SIZEMIN - FUSE_PROTO_REQ_SIZE("batch_forget"))
        \div FUSE_PROTO_FORGET_ONE_SIZE

\* C10: a forget context posted with N items is destroyed only with its list
\* empty, after exactly N request half-steps when every message was a FORGET
\* and after at most ceil(N / capacity) when every message was a
\* BATCH_FORGET; until then it is live with items left and, between calls,
\* back on the pending list.
C10_ForgetDrain ==
    /\ ret.forgot.N > 0 =>
          /\ ret.forgot.left = 0
          /\ ret.forgot.nBatch = 0 => ret.forgot.nForget = ret.forgot.N
          /\ ret.forgot.nForget = 0 =>
                ret.forgot.nBatch * BatchCapacity < ret.forgot.N + BatchCapacity
    /\ \A a \in Addrs :
          (IsForget(ctx[a]) /\ TimesHeld(a) = 0) =>
              /\ InPending(a)
              /\ ctx[a].ForgetList # <<>>
              /\ ctx[a].nBatch = 0 =>
                    ctx[a].nForget + Len(ctx[a].ForgetList) = ctx[a].N

\* A list of MaxForget items went out in BATCH_FORGET messages and the
\* context was destroyed
C10_Witness ==
    /\ ret.forgot.N = MaxForget
    /\ ret.forgot.nForget = 0
    /\ ret.forgot.nBatch * BatchCapacity >= MaxForget
    /\ ret.forgot.left = 0


C12_InitFailureReleases ==
    Instance.state = "failed" =>
        /\ ~NT_SUCCESS(Instance.Result)
        /\ Instance.Ioq \in {"null", "deleted"}
        /\ Instance.Cache \in {"null", "deleted"}
        /\ Instance.OpGuardLock \in {"uninit", "final"}
        /\ Instance.Files \in {"uninit", "final"}

\* C13: FuseDeviceFini deletes the IOQ, then finalizes the file table, then
\* deletes the cache: the step that deletes the IOQ destroys every context in
\* pending or processing and runs its Fini hook (the forget items it held
\* are released); the file table is finalized only with the IOQ deleted and
\* no context left; the cache is deleted only with the file table finalized.
C13_FiniOrder ==
    [][/\ (Instance.Ioq = "live" /\ Instance'.Ioq = "deleted") =>
             /\ \A a \in InIoq : ~ctx'[a].live
             /\ pending' = <<>> /\ processing' = {}
             /\ hist'.released = hist.released + FiniAll(InIoq)
       /\ Instance'.Files = "final" =>
             /\ Instance'.Ioq = "deleted"
             /\ \A a \in Addrs : ~ctx'[a].live
       /\ (Instance'.state = "fini" /\ Instance'.Cache = "deleted") =>
             Instance'.Files = "final"]_vars

\* The instance was torn down while a forget context still held items: the
\* items were released, and the cache went last of the three
C13_Witness ==
    /\ Instance.fini = FiniOrder
    /\ hist.released > 0
    /\ Instance.Cache = "deleted"
    /\ Instance.Files = "final"


\* C14: a context a thread is resuming or about to dispatch is live, is in
\* neither list of the IOQ (so no other thread can dequeue it) and is in the
\* hands of no other thread: no context is resumed by two threads at once,
\* and none is resumed or read after another thread destroyed it.
C14_OneResumer ==
    \A t \in Threads :
        (th[t].pc \in {"rsp", "proc"} /\ th[t].Context.tag = "ptr") =>
            LET a == th[t].Context.addr
            IN  /\ ctx[a].live
                /\ a \notin InIoq
                /\ \A u \in Threads \ {t} : ~Holds(u, a)

\* One thread resumes a context with its response while another resumes a
\* different context with a request buffer
C14_Witness ==
    \E a \in Addrs, b \in Addrs :
        /\ a # b
        /\ Holds(1, a) /\ th[1].pc = "rsp"
        /\ Holds(2, b) /\ th[2].pc = "proc"


\* C15 as stated: a response that answers a request that was sent and that
\* resumes a context resumes the context that sent that request, also when
\* the response is late or a duplicate and the address it names has been
\* reused.  Fails for a duplicate response once the address is reused.
C15_ResumesRequester ==
    \A t \in Threads :
        (/\ entry.verdict = "ok" /\ entry.re # NoOrigin
         /\ th[t].pc = "rsp" /\ th[t].Context = PtrContext(entry.unique))
        => OriginOf(ctx[entry.unique]) = entry.re


C17_ValidationFrame ==
    [][entry'.verdict \in {"STATUS_INVALID_PARAMETER", "STATUS_BUFFER_TOO_SMALL"}
          => (/\ ret'.Result = entry'.verdict
              /\ pending' = pending /\ processing' = processing /\ ctx' = ctx
              /\ Instance' = Instance /\ host' = host /\ th' = th)]_vars

\* A valid response for a context in processing came with an output buffer
\* that is too small; the context is still in processing
C17_Witness ==
    /\ entry.verdict = "STATUS_BUFFER_TOO_SMALL"
    /\ ret.Result = "STATUS_BUFFER_TOO_SMALL"
    /\ FUSE_PROTO_RSP_HEADER_SIZE <= entry.len /\ entry.len <= entry.InputBufferLength
    /\ entry.unique \in processing
    /\ ctx[entry.unique].live


\* C18: the request half-step that holds a status-only context for a freshly
\* admitted internal request resumes no context and changes neither the
\* pending list nor the processing map; it hands the host framework one
\* internal response with the request's Kind and Hint and the context's
\* status (which arrives unless the forwarder fails), returns with
\* Information 0 and no FUSE request written, and has freed the internal
\* request once.
C18_StatusOnly ==
    [][\A t \in Threads :
          (/\ th[t].pc = "proc" /\ FuseContextIsStatus(th[t].Context)
           /\ th'[t] # th[t])
          => LET r == th[t].InternalRequest
                 d == [Kind |-> host.req[r].Kind, Hint |-> host.req[r].Hint,
                       Status |-> FuseContextToStatus(th[t].Context),
                       FileInfo |-> NoFileInfo]
             IN  /\ r # 0 /\ host.req[r].state = "admitted"
                 /\ ctx' = ctx /\ pending' = pending /\ processing' = processing
                 /\ th'[t].pc = "idle"
                 /\ ret'.Information = 0 /\ ret'.FuseRequest = ZeroReq
                 /\ host'.req[r].state = "freed" /\ host'.req[r].freed = 1
                 /\ \/ /\ ret'.Result = "STATUS_SUCCESS"
                       /\ d \notin host.upward
                       /\ host'.upward = host.upward \cup {d}
                    \/ /\ ret'.Result = TransportError
                       /\ host'.upward = host.upward]_vars

\* A call has just returned after answering a request through a status-only
\* context: the response is with the host, the request is freed, no context
\* was kept
C18_Witness ==
    /\ ret.Result = "STATUS_SUCCESS" /\ ret.out /\ ret.Information = 0
    /\ \E r \in ReqIds :
          /\ host.req[r].state = "freed" /\ host.req[r].freed = 1
          /\ [Kind |-> host.req[r].Kind, Hint |-> host.req[r].Hint,
              Status |-> AllocError, FileInfo |-> NoFileInfo] \in host.upward
          /\ \A a \in Addrs : ctx[a].InternalRequest # r


\* C19: the step that resumes a host-originated context with a response
\* whose error is not 0 destroys the context without posting it again (it
\* is in neither pending nor processing), releases its internal request and
\* adds no item to the cache; when the forwarder accepts it, the internal
\* response that reaches the host framework has the context's Kind and Hint
\* and the errno-mapped status.
C19_ErrorResponse ==
    [][\A t \in Threads, a \in Addrs :
          (/\ Holds(t, a) /\ th[t].pc = "rsp"
           /\ ctx[a].InternalRequest # 0
           /\ th[t].FuseResponse.error # 0
           /\ th'[t] # th[t])
          => LET r == ctx[a].InternalRequest
                 d == [Kind |-> ctx[a].Kind, Hint |-> ctx[a].Hint,
                       Status |-> FuseNtStatusFromErrno(th[t].FuseResponse.error),
                       FileInfo |-> NoFileInfo]
             IN  /\ ~ctx'[a].live
                 /\ a \notin processing' /\ ~InPending(a)'
                 /\ host'.req[r].state = "freed"
                 /\ Instance'.CacheItems = Instance.CacheItems
                 /\ th'[t].pc \in {"req", "idle"}
                 /\ th'[t].pc = "req" => host'.upward = host.upward \cup {d}
                 /\ th'[t].pc = "idle" => host'.upward = host.upward]_vars

\* A LOOKUP answered with ENOENT has been reported upward as "object name
\* not found"; its request is released and the cache is empty
C19_Witness ==
    /\ Instance.Cache = "live" /\ Instance.CacheItems = 0
    /\ \E r \in ReqIds :
          /\ host.req[r].state = "freed" /\ host.req[r].Kind = "Lookup"
          /\ [Kind |-> "Lookup", Hint |-> host.req[r].Hint,
              Status |-> FuseNtStatusFromErrno(ENOENT),
              FileInfo |-> NoFileInfo] \in host.upward
          /\ \A a \in Addrs : ctx[a].InternalRequest # r


\* C20: when a finished host context's internal response does not reach the
\* host framework because the forwarder fails, the step still destroys the
\* context (it is in neither pending nor processing), and the call returns
\* the forwarder's error; in the response half-step the call also ends
\* there: the pending list is as it was and no request is written.
C20_ForwardFailure ==
    [][\A t \in Threads, a \in Addrs :
          /\ LET p == FuseContextProcess(a, ctx[a], th[t].FuseResponse, ZeroReq,
                          Instance, 0)
             IN  (/\ Holds(t, a) /\ th[t].pc = "rsp"
                  /\ ctx[a].InternalRequest # 0 /\ ~p.Continue
                  /\ th'[t] # th[t]
                  /\ InternalResponse(p.c) \notin host'.upward)
                 => (/\ ~ctx'[a].live
                     /\ a \notin processing' /\ ~InPending(a)'
                     /\ host'.req[ctx[a].InternalRequest].state = "freed"
                     /\ th'[t].pc = "idle"
                     /\ ret'.Result = TransportError
                     /\ pending' = pending
                     /\ ret'.FuseRequest = ZeroReq)
          /\ LET p == FuseContextProcess(a, ctx[a], NoRsp, ZeroReq, Instance, 0)
             IN  (/\ Holds(t, a) /\ th[t].pc = "proc"
                  /\ ctx[a].InternalRequest # 0 /\ ~p.Continue
                  /\ th'[t] # th[t]
                  /\ InternalResponse(p.c) \notin host'.upward)
                 => (/\ ~ctx'[a].live
                     /\ a \notin processing' /\ ~InPending(a)'
                     /\ host'.req[ctx[a].InternalRequest].state = "freed"
                     /\ th'[t].pc = "idle"
                     /\ ret'.Result = TransportError)]_vars

\* A call with an output buffer has just returned the forwarder's error from
\* its response half-step: the request is released unanswered and the
\* context that was pending is still pending
C20_Witness ==
    /\ ret.Result = TransportError /\ ret.rspCase = "matched" /\ ret.out
    /\ pending # <<>>
    /\ \E r \in ReqIds :
          /\ host.req[r].state = "freed" /\ host.req[r].freeStatus = TransportError
          /\ ~Delivered(r)
          /\ \A a \in Addrs : ctx[a].InternalRequest # r


\* C21: every forget context on the pending list has a non-empty forget
\* list, so every FORGET request a call returns names an item that
\* FuseCacheForgetNextItem popped (never the value Ino had before), and every
\* BATCH_FORGET request a call returns has a count above 0.
C21_ForgetNeverEmpty ==
    /\ \A a \in Addrs :
          (IsForget(ctx[a]) /\ InPending(a)) => ctx[a].ForgetList # <<>>
    /\ ret.FuseRequest.opcode = FUSE_PROTO_OPCODE_FORGET
          => ret.FuseRequest.nodeid > 1
    /\ ret.FuseRequest.opcode = FUSE_PROTO_OPCODE_BATCH_FORGET
          => (/\ ret.FuseRequest.count > 0
              /\ ret.FuseRequest.len = FUSE_PROTO_REQ_SIZE("batch_forget")
                     + ret.FuseRequest.count * FUSE_PROTO_FORGET_ONE_SIZE)

\* A call has just returned a full BATCH_FORGET request and the forget
\* context is back on the pending list with the items that did not fit
C21_Witness ==
    /\ ret.FuseRequest.opcode = FUSE_PROTO_OPCODE_BATCH_FORGET
    /\ ret.FuseRequest.count = BatchCapacity
    /\ \E a \in Addrs :
          /\ IsForget(ctx[a]) /\ InPending(a)
          /\ ctx[a].ForgetList # <<>>
          /\ ctx[a].nBatch = 1


\* C22: an internal request is freed at most once; while a live context
\* owns it, it has not been freed; and the step that frees it leaves no live
\* context owning it (the call frees at exit only a request no context took,
\* the context's destruction frees the request the context owns).
C22_FreedOnce ==
    [][\A r \in ReqIds :
          /\ host'.req[r].freed <= 1
          /\ (\E a \in Addrs : ctx'[a].live /\ ctx'[a].InternalRequest = r)
                => (host'.req[r].state = "admitted" /\ host'.req[r].freed = 0)
          /\ host'.req[r].freed > host.req[r].freed
                => (/\ host.req[r].state = "admitted"
                    /\ host'.req[r].state = "freed"
                    /\ \A a \in Addrs : ~(ctx'[a].live /\ ctx'[a].InternalRequest = r)
                    /\ \A t \in Threads : th'[t].InternalRequest # r)]_vars

\* A call created a live context from an internal request, sent its FUSE
\* request and returned: the context owns the request, which is not freed
C22_Witness ==
    /\ \A t \in Threads : th[t].pc = "idle"
    /\ \E r \in ReqIds, a \in Addrs :
          /\ ctx[a].live /\ ctx[a].InternalRequest = r
          /\ a \in processing
          /\ host.req[r].state = "admitted" /\ host.req[r].freed = 0

====
